---- MODULE Spec2Model ----
(***************************************************************************)
(* Inventory, product and bill handlers of the point-of-sale server, with  *)
(* the document store (products, inventory, bills) and the key-value cache *)
(* they share.  Every handler is a function from the state before the      *)
(* request to the state after it and the response; an action of the        *)
(* specification draws a request and applies its handler.                  *)
(*                                                                         *)
(* A value that may be undefined in JavaScript is a set: {} is undefined   *)
(* and {v} is the value v.                                                 *)
(*                                                                         *)
(* Requests that run concurrently are in requests: each holds its position *)
(* between two awaits and the values it has read so far.                   *)
(***************************************************************************)
EXTENDS Integers, Sequences, FiniteSets, TLC

VARIABLES products, inventory, bills, cache, last, requests

vars == <<products, inventory, bills, cache, last, requests>>

\* ------------------------------------------------------------------ bounds

MaxProducts == 1
MaxInventory == 2
MaxBills == 1
MaxQty == 1
QtyLimit == 2
MaxMinStock == 1
MaxItems == 2
MaxClock == 2
MaxAmount == 1
MaxStatBills == 3

\* ------------------------------------------------------- program constants

DefaultMinStock == 10
DefaultStock == 0

\* billService uses redisClient without importing it: every use throws a
\* ReferenceError inside the helper's try block.
BillRedisDefined == FALSE

\* ------------------------------------------------------------ value helpers

Undefined == {}

Some(v) == {v}

Val(x) == CHOOSE v \in x : TRUE

\* JavaScript truthiness of a number that may be undefined.
Truthy(x) == x # Undefined /\ Val(x) # 0

\* x || d on numbers.
OrElse(x, d) == IF Truthy(x) THEN Val(x) ELSE d

NoBarcode == "undefined"

NoId == 0

Barcodes == {"b1"}

BarcodeInputs == Barcodes \cup {NoBarcode}

Users == {"u1"}

IdStr(i) == <<"1", "2", "3", "4", "5", "6">>[i]

\* ------------------------------------------------------------------- state

\* The store and the cache as one value, so that a handler is a function of it.
State ==
  [products |-> products, inventory |-> inventory, bills |-> bills, cache |-> cache]

\* The cache is a finite map from keys to serialized values; a key outside its
\* domain is a miss.
EmptyCache == [k \in {} |-> Undefined]

CacheGet(c, k) == IF k \in DOMAIN c THEN Some(c[k]) ELSE Undefined

CacheSet(c, k, v) == [x \in DOMAIN c \cup {k} |-> IF x = k THEN v ELSE c[x]]

CacheDel(c, k) == [x \in DOMAIN c \ {k} |-> c[x]]

Reply(s, code) == [s |-> s, resp |-> [code |-> code]]

Min(S) == CHOOSE x \in S : \A y \in S : x <= y

\* -------------------------------------------------------------- the store

\* Inventory.findOne({ barcode }): the first document in natural order.
FindInventoryByBarcode(inv, b) ==
  LET m == {i \in 1..Len(inv) : inv[i].barcode = b}
  IN IF b = NoBarcode \/ m = {} THEN NoId ELSE Min(m)

\* Inventory.findOne({ productId }).
FindInventoryByProduct(inv, p) ==
  LET m == {i \in 1..Len(inv) : inv[i].productId = p}
  IN IF m = {} THEN NoId ELSE Min(m)

\* Product.findById(id).
ProductExists(prods, id) == id \in 1..Len(prods)

\* Product.findOne({ barcode }).
FindProductByBarcode(prods, b) ==
  LET m == {i \in 1..Len(prods) : prods[i].barcode = b}
  IN IF b = NoBarcode \/ m = {} THEN NoId ELSE Min(m)

\* The unique sparse index on Product.barcode: saving product id with barcode b
\* is rejected when another product holds b.
ProductBarcodeClash(prods, id, b) ==
  b # NoBarcode /\ \E j \in 1..Len(prods) : j # id /\ prods[j].barcode = b

\* The lookup answering from the cache entry of the document when there is one.
findInventoryByIdCached(s, id) ==
  IF ("inventory:" \o IdStr(id)) \in DOMAIN s.cache
    THEN Some(s.cache["inventory:" \o IdStr(id)])
  ELSE IF id \in 1..Len(s.inventory) THEN Some(s.inventory[id]) ELSE Undefined

\* The lookup taking an id past the last document for the next one to create.
findInventoryByIdOrNew(s, id) ==
  IF id \in 1..Len(s.inventory) THEN Some(s.inventory[id])
  ELSE Some([productId |-> NoId, barcode |-> NoBarcode, quantity |-> 0,
             minStock |-> 10, status |-> "Out of Stock"])

\* Inventory.findById(id): the document, or undefined (null).
findInventoryById(s, id) ==
  IF id \in 1..Len(s.inventory) THEN Some(s.inventory[id]) ELSE Undefined

\* Write document doc at position id (a new document when id = Len + 1).
Put(docs, id, doc) ==
  IF id = Len(docs) + 1 THEN Append(docs, doc) ELSE [docs EXCEPT ![id] = doc]

\* -------------------------------------------------------- status derivation

\* The threshold compared with < instead of <=.
deriveStatusStrict(quantity, minStock) ==
  IF quantity = 0 THEN "Out of Stock"
  ELSE IF quantity < minStock THEN "Low Stock"
  ELSE "In Stock"

deriveStatus(quantity, minStock) ==
  IF quantity = 0 THEN "Out of Stock"
  ELSE IF quantity <= minStock THEN "Low Stock"
  ELSE "In Stock"

WithStatus(doc) == [doc EXCEPT !.status = deriveStatus(doc.quantity, doc.minStock)]

\* ------------------------------------------------------ POST /api/inventory

PostInventory(s, req) ==
  LET prods == s.products
      inv == s.inventory
      found == IF req.barcode # NoBarcode
                 THEN FindInventoryByBarcode(inv, req.barcode)
               ELSE IF req.productId # NoId
                 THEN FindInventoryByProduct(inv, req.productId)
               ELSE NoId
      doc == IF found # NoId
               THEN [inv[found] EXCEPT !.quantity = @ + Val(req.quantity),
                                       !.minStock = OrElse(req.minStock, @)]
             ELSE [productId |-> req.productId,
                   barcode |-> req.barcode,
                   quantity |-> Val(req.quantity),
                   minStock |-> OrElse(req.minStock, DefaultMinStock),
                   status |-> "In Stock"]
      saved == WithStatus(doc)
      id == IF found # NoId THEN found ELSE Len(inv) + 1
      newBarcode == IF req.barcode # NoBarcode THEN req.barcode
                    ELSE prods[req.productId].barcode
      prods1 == IF req.productId # NoId
                  THEN [prods EXCEPT ![req.productId] =
                          [@ EXCEPT !.stock = Some(saved.quantity),
                                    !.barcode = newBarcode]]
                ELSE prods
  IN
  IF ~Truthy(req.quantity) THEN Reply(s, 400)
  ELSE IF req.productId # NoId /\ ~ProductExists(prods, req.productId)
    THEN Reply(s, 404)
  ELSE IF found = NoId /\ req.productId = NoId /\ req.barcode = NoBarcode
    THEN Reply(s, 400)
  \* product.save() is rejected by the unique index on Product.barcode
  ELSE IF req.productId # NoId
          /\ ProductBarcodeClash(prods, req.productId, newBarcode)
    THEN Reply(s, 500)
  \* inventory.save() is rejected: productId is required
  ELSE IF found = NoId /\ req.productId = NoId THEN Reply(s, 500)
  ELSE [s |-> [s EXCEPT !.products = prods1, !.inventory = Put(inv, id, saved)],
        resp |-> [code |-> 201, inv |-> id]]

\* ------------------------------------- POST /api/inventory/register-barcode

RegisterBarcode(s, req) ==
  LET prods == s.products
      inv == s.inventory
      p0 == FindProductByBarcode(prods, req.barcode)
      pid == IF p0 = NoId THEN Len(prods) + 1 ELSE p0
      prods1 == IF p0 = NoId
                  THEN Append(prods, [barcode |-> req.barcode,
                                      stock |-> Some(OrElse(req.quantity, 0)),
                                      active |-> TRUE])
                ELSE prods
      found == FindInventoryByBarcode(inv, req.barcode)
      doc == IF found # NoId
               THEN [inv[found] EXCEPT !.quantity = @ + OrElse(req.quantity, 0)]
             ELSE [productId |-> pid,
                   barcode |-> req.barcode,
                   quantity |-> OrElse(req.quantity, 0),
                   minStock |-> DefaultMinStock,
                   status |-> "In Stock"]
      saved == WithStatus(doc)
      id == IF found # NoId THEN found ELSE Len(inv) + 1
      prods2 == [prods1 EXCEPT ![pid] = [@ EXCEPT !.stock = Some(saved.quantity)]]
  IN
  IF req.barcode = NoBarcode \/ ~req.fields THEN Reply(s, 400)
  ELSE [s |-> [s EXCEPT !.products = prods2, !.inventory = Put(inv, id, saved)],
        resp |-> [code |-> 201, inv |-> id]]

\* --------------------------------------------------- PUT /api/inventory/:id

UpdateInventory(s, req) ==
  LET inv == s.inventory
      \* findByIdAndUpdate: a field that is undefined in the update is left alone
      doc == [inv[req.id] EXCEPT
                !.quantity = IF req.quantity # Undefined THEN Val(req.quantity) ELSE @,
                !.minStock = IF req.minStock # Undefined THEN Val(req.minStock) ELSE @]
      saved == WithStatus(doc)
      prods1 == [s.products EXCEPT ![saved.productId] =
                   [@ EXCEPT !.stock = req.quantity]]
  IN
  IF req.id \notin 1..Len(inv) THEN Reply(s, 404)
  ELSE [s |-> [s EXCEPT !.products = prods1, !.inventory = Put(inv, req.id, saved)],
        resp |-> [code |-> 200, inv |-> req.id]]

\* ----------------------------------- PUT /api/inventory/:id/adjust-quantity

\* The adjustment stopping at zero instead of going below it.
adjustedQuantityFloored(quantity, delta) ==
  IF quantity + delta < 0 THEN 0 ELSE quantity + delta

\* inventory.quantity += quantity.
adjustedQuantity(quantity, delta) == quantity + delta

AdjustQuantity(s, req) ==
  LET inv == s.inventory
      loaded == findInventoryById(s, req.id)
      doc == [Val(loaded) EXCEPT !.quantity = adjustedQuantity(@, Val(req.quantity))]
      saved == WithStatus(doc)
      prods1 == [s.products EXCEPT ![saved.productId] =
                   [@ EXCEPT !.stock = Some(saved.quantity)]]
  IN
  IF req.quantity = Undefined THEN Reply(s, 400)
  ELSE IF loaded = Undefined THEN Reply(s, 404)
  ELSE [s |-> [s EXCEPT !.products = prods1, !.inventory = Put(inv, req.id, saved)],
        resp |-> [code |-> 200, inv |-> req.id]]

\* ------------------------------------------ POST /api/inventory/deduct-bill

\* item.name || barcode || id, with no name sent.
ItemLabel(item) ==
  IF item.barcode # NoBarcode THEN item.barcode
  ELSE IF item.id # NoId THEN IdStr(item.id)
  ELSE "undefined"

\* The check refusing an item that asks for exactly what is left.
InsufficientOrEqual(available, quantity) == available <= quantity

\* The check letting through an item that asks for one more than is left.
InsufficientOffByOne(available, quantity) == available + 1 < quantity

\* The sufficiency check: inventory.quantity < quantity.
Insufficient(available, quantity) == available < quantity

\* The catch block of the loop logging the exception without recording it.
PushErrorUnlessThrown(errors, item, msg) ==
  IF msg = "store error" THEN errors
  ELSE Append(errors, [product |-> ItemLabel(item), error |-> msg])

\* errors.push({ product, error }).
PushError(errors, item, msg) ==
  Append(errors, [product |-> ItemLabel(item), error |-> msg])

\* One pass of the loop body.  acc holds the state, the two response lists and
\* log, which records for every item the document it resolved to and the
\* quantity that document held when the item was processed.  fault is what the
\* store does to this item's writes: "none", "inventory.save" or "product.save"
\* (the named call rejects).
DeductItem(acc, item, fault) ==
  LET s == acc.s
      inv == s.inventory
      found == IF item.barcode # NoBarcode
                 THEN FindInventoryByBarcode(inv, item.barcode)
               ELSE IF item.id # NoId
                 THEN FindInventoryByProduct(inv, item.id)
               ELSE NoId
      avail == inv[found].quantity
      saved == WithStatus([inv[found] EXCEPT !.quantity = @ - item.quantity])
      inv1 == [inv EXCEPT ![found] = saved]
      prods1 == [s.products EXCEPT ![saved.productId] =
                   [@ EXCEPT !.stock = Some(saved.quantity)]]
      Failed(msg, av, s1) ==
        [acc EXCEPT !.s = s1,
                    !.errors = PushError(@, item, msg),
                    !.log = Append(@, [inv |-> found, available |-> av,
                                       outcome |-> msg])]
  IN
  IF found = NoId THEN Failed("Inventory item not found", 0, s)
  ELSE IF Insufficient(avail, item.quantity)
    THEN Failed("Insufficient quantity", avail, s)
  ELSE IF fault = "inventory.save" THEN Failed("store error", avail, s)
  ELSE IF fault = "product.save"
    THEN Failed("store error", avail, [s EXCEPT !.inventory = inv1])
  ELSE [acc EXCEPT
          !.s = [s EXCEPT !.inventory = inv1, !.products = prods1],
          !.deducted = Append(@, [barcode |-> saved.barcode,
                                  quantity |-> item.quantity,
                                  remainingQuantity |-> saved.quantity,
                                  status |-> saved.status]),
          !.log = Append(@, [inv |-> found, available |-> avail,
                             outcome |-> "deducted"])]

RECURSIVE DeductLoop(_, _, _, _)
DeductLoop(acc, items, faults, k) ==
  IF k > Len(items) THEN acc
  ELSE DeductLoop(DeductItem(acc, items[k], faults[k]), items, faults, k + 1)

\* items = << >> stands for a body whose billItems is missing, no array or empty.
DeductBill(s, items, faults) ==
  LET acc == DeductLoop([s |-> s, deducted |-> << >>, errors |-> << >>,
                         log |-> << >>], items, faults, 1)
  IN
  IF Len(items) = 0 THEN Reply(s, 400)
  ELSE [s |-> acc.s,
        resp |-> [code |-> 200, deductedItems |-> acc.deducted,
                  errors |-> acc.errors, log |-> acc.log]]

\* ------------------------------------------------ inventory.save() in flight

\* The write expressed as an increment of what the store holds.
SaveIncrement(stored, loaded, local) ==
  LET quantity == stored.quantity + (local.quantity - loaded.quantity)
  IN [stored EXCEPT !.quantity = quantity,
                    !.status = deriveStatus(quantity, stored.minStock)]

\* inventory.save() of a document loaded earlier: the paths whose value the
\* handler changed since the load are written over what the store holds, with
\* no check that the store still holds what was loaded; the other paths of the
\* stored document stay.
SaveModified(stored, loaded, local) ==
  [stored EXCEPT
     !.quantity = IF local.quantity # loaded.quantity THEN local.quantity ELSE @,
     !.status = IF local.status # loaded.status THEN local.status ELSE @]

\* The document in the memory of a request that has loaded it: quantity
\* changed by the delta (adjust-quantity), less the item's quantity
\* (deduct-bill) or as findByIdAndUpdate returned it (update), and the status
\* assigned from it.
Local(r) ==
  LET loaded == Val(r.doc)
  IN WithStatus([loaded EXCEPT
       !.quantity = IF r.op = "adjust" THEN adjustedQuantity(@, r.arg)
                    ELSE IF r.op = "deduct" THEN @ - r.arg
                    ELSE @])

\* ------------------------------------------------------------ cacheService

\* JSON.stringify of a Product document: the ObjectId becomes a string.
ProductJSON(prods, id) ==
  [_id |-> IdStr(id), barcode |-> prods[id].barcode,
   stock |-> prods[id].stock, active |-> prods[id].active]

\* JSON.stringify of Inventory.find().populate('productId').
InventoryListJSON(s) ==
  [i \in 1..Len(s.inventory) |->
     [_id |-> IdStr(i),
      productId |-> ProductJSON(s.products, s.inventory[i].productId),
      barcode |-> s.inventory[i].barcode,
      quantity |-> s.inventory[i].quantity,
      minStock |-> s.inventory[i].minStock,
      status |-> s.inventory[i].status]]

\* redisClient.get, setEx and del.  up = FALSE is a call that rejects; setEx
\* also throws on a value that is undefined (JSON.stringify(undefined)).
RedisGet(c, up, key) ==
  [threw |-> ~up, value |-> IF up THEN CacheGet(c, key) ELSE Undefined]

RedisSetEx(c, up, key, data) ==
  IF up /\ data # Undefined
    THEN [threw |-> FALSE, cache |-> CacheSet(c, key, Val(data))]
  ELSE [threw |-> TRUE, cache |-> c]

RedisDel(c, up, key) ==
  IF up THEN [threw |-> FALSE, cache |-> CacheDel(c, key)]
  ELSE [threw |-> TRUE, cache |-> c]

\* The catch block of a reading helper: log and return null.
CatchGet(r) == IF r.threw THEN [threw |-> FALSE, value |-> Undefined] ELSE r

\* The catch block of a writing helper: log and return false.
CatchSet(r) == [threw |-> FALSE, cache |-> r.cache]

cacheProduct(c, up, productId, productData) ==
  CatchSet(RedisSetEx(c, up, "product:" \o productId, productData))

getCachedProduct(c, up, productId) ==
  CatchGet(RedisGet(c, up, "product:" \o productId))

cacheProductByBarcode(c, up, barcode, data) ==
  CatchSet(RedisSetEx(c, up, "barcode:" \o barcode, data))

\* The reading helper without its try/catch.
getCachedProductByBarcodeNoCatch(c, up, barcode) ==
  RedisGet(c, up, "barcode:" \o barcode)

getCachedProductByBarcode(c, up, barcode) ==
  CatchGet(RedisGet(c, up, "barcode:" \o barcode))

\* The invalidation that drops the product list and leaves the entries.
invalidateProductListOnly(c, up, productId, barcode) ==
  CatchSet(RedisDel(c, up, "products:list"))

invalidateProductCache(c, up, productId, barcode) ==
  LET d1 == RedisDel(c, up, "product:" \o productId)
      d2 == IF barcode # NoBarcode THEN RedisDel(d1.cache, up, "barcode:" \o barcode)
            ELSE d1
  IN CatchSet(RedisDel(d2.cache, up, "products:list"))

cacheInventory(c, up, inventoryId, inventoryData) ==
  CatchSet(RedisSetEx(c, up, "inventory:" \o inventoryId, inventoryData))

getCachedInventory(c, up, inventoryId) ==
  CatchGet(RedisGet(c, up, "inventory:" \o inventoryId))

invalidateInventoryCache(c, up, inventoryId) ==
  LET d1 == IF inventoryId # "undefined"
              THEN RedisDel(c, up, "inventory:" \o inventoryId)
            ELSE [threw |-> FALSE, cache |-> c]
  IN CatchSet(RedisDel(d1.cache, up, "inventory:list"))

\* -------------------------------------------------------- GET /api/inventory

\* `${inventory}` of the array of documents that the handler passes as the id.
ArrayString(list) == IF Len(list) = 0 THEN "" ELSE "[documents]"

\* The request without filters.  The handler calls getCachedInventory() with
\* no id and cacheInventory(inventory) with the list as the id and no data.
GetInventoryList(s, up) ==
  LET cached == getCachedInventory(s.cache, up, "undefined")
      list == InventoryListJSON(s)
      stored == cacheInventory(s.cache, up, ArrayString(list), Undefined)
  IN
  \* an exception that leaves a helper reaches the handler's catch block
  IF cached.threw THEN Reply(s, 500)
  ELSE IF cached.value # Undefined
    THEN [s |-> s,
          resp |-> [code |-> 200, data |-> Val(cached.value), cached |-> TRUE]]
  ELSE IF stored.threw THEN Reply(s, 500)
  ELSE [s |-> [s EXCEPT !.cache = stored.cache],
        resp |-> [code |-> 200, data |-> list, cached |-> FALSE]]

\* -------------------------------------------- GET /api/inventory with filters

\* The test that overlooks the search parameter.
NoFilterButSearch(q) == q.warehouse = Undefined /\ q.status = Undefined

\* !warehouse && !status && !search (the values are strings).
NoFilter(q) ==
  /\ ~(q.warehouse # Undefined /\ Val(q.warehouse) # "")
  /\ ~(q.status # Undefined /\ Val(q.status) # "")
  /\ ~(q.search # Undefined /\ Val(q.search) # "")

\* Inventory.find(query) on a populated document.  No request of the model
\* sends a warehouse, so every document has the default one; the search is
\* matched against barcodes (no product name of the model contains it).
MatchesQuery(doc, q) ==
  /\ (q.warehouse # Undefined /\ Val(q.warehouse) # "") => Val(q.warehouse) = "Default"
  /\ (q.status # Undefined /\ Val(q.status) # "") => doc.status = Val(q.status)
  /\ (q.search # Undefined /\ Val(q.search) # "") =>
       (doc.productId.barcode = Val(q.search) \/ doc.barcode = Val(q.search))

\* The handler with its query string: the cache is consulted and filled only
\* when no filter is given.
GetInventory(s, up, q) ==
  IF NoFilter(q) THEN GetInventoryList(s, up)
  ELSE [s |-> s,
        resp |-> [code |-> 200,
                  data |-> SelectSeq(InventoryListJSON(s),
                                     LAMBDA doc : MatchesQuery(doc, q)),
                  cached |-> FALSE]]

\* ----------------------------------------- GET /api/products/barcode/:barcode

GetProductByBarcode(s, up, barcode) ==
  LET cached == getCachedProductByBarcode(s.cache, up, barcode)
      m == {i \in 1..Len(s.products) :
              s.products[i].barcode = barcode /\ s.products[i].active}
      data == ProductJSON(s.products, Min(m))
      stored == cacheProductByBarcode(s.cache, up, barcode, Some(data))
  IN
  IF cached.threw THEN Reply(s, 500)
  ELSE IF cached.value # Undefined
    THEN [s |-> s,
          resp |-> [code |-> 200, data |-> Val(cached.value), cached |-> TRUE]]
  ELSE IF m = {} THEN Reply(s, 404)
  ELSE IF stored.threw THEN Reply(s, 500)
  ELSE [s |-> [s EXCEPT !.cache = stored.cache],
        resp |-> [code |-> 200, data |-> data, cached |-> FALSE]]

\* ------------------------------------------------------- /api/products writes

\* POST /api/products.  fields: name, price and category are all present.
CreateProduct(s, req) ==
  IF ~req.fields THEN Reply(s, 400)
  ELSE IF FindProductByBarcode(s.products, req.barcode) # NoId THEN Reply(s, 409)
  ELSE [s |-> [s EXCEPT !.products =
                 Append(@, [barcode |-> req.barcode, stock |-> Some(DefaultStock),
                            active |-> TRUE])],
        resp |-> [code |-> 201]]

\* PUT /api/products/:id with a body that sets the barcode.
UpdateProduct(s, req) ==
  IF ~ProductExists(s.products, req.id) THEN Reply(s, 404)
  ELSE IF ProductBarcodeClash(s.products, req.id, req.barcode) THEN Reply(s, 500)
  ELSE [s |-> [s EXCEPT !.products[req.id].barcode =
                 IF req.barcode # NoBarcode THEN req.barcode ELSE @],
        resp |-> [code |-> 200]]

\* DELETE /api/products/:id.
DeleteProduct(s, id) ==
  IF ~ProductExists(s.products, id) THEN Reply(s, 404)
  ELSE [s |-> [s EXCEPT !.products[id].active = FALSE], resp |-> [code |-> 200]]

\* --------------------------------------------------------------- billService

StatsKeys == {"bill-stats:daily"}

RECURSIVE CacheDelAll(_, _)
CacheDelAll(c, keys) ==
  IF keys = {} THEN c
  ELSE LET k == CHOOSE x \in keys : TRUE IN CacheDelAll(CacheDel(c, k), keys \ {k})

\* A use of redisClient inside billService: the name is not defined there, so
\* the call throws before it reaches the cache.
BillRedisDel(c, up, keys) ==
  IF BillRedisDefined /\ up THEN [threw |-> FALSE, cache |-> CacheDelAll(c, keys)]
  ELSE [threw |-> TRUE, cache |-> c]

invalidateBillListCache(c, up, userId) ==
  CatchSet(BillRedisDel(c, up, {"bills:" \o userId} \cap DOMAIN c))

invalidateBillStatsCache(c, up) ==
  CatchSet(BillRedisDel(c, up, StatsKeys \cap DOMAIN c))

\* ------------------------------------------------------------ POST /api/bills

generateBillNumber(now) == "BILL-" \o IdStr(now)

\* A string field of a request body that is present and not empty.
TruthyStr(x) == x # Undefined /\ Val(x) # ""

\* A Bill document that deleteOne has not removed.  A removed document keeps
\* its position, so that the position of a document is its _id for good.
Stored(bill) == ~bill.deleted

\* Bill.findOne({ _id: id, userId }).
FindBill(s, id, userId) ==
  IF id \in 1..Len(s.bills) /\ Stored(s.bills[id]) /\ s.bills[id].userId = userId
    THEN id
  ELSE NoId

\* The unique index on billNumber: a stored bill already has the number.
BillNumberTaken(bs, billNumber) ==
  \E i \in 1..Len(bs) : Stored(bs[i]) /\ bs[i].billNumber = billNumber

\* now: the reading of Date.now().  The body's totals are stored as they come;
\* discount has the schema's default when the body has none.
CreateBill(s, up, req) ==
  LET billNumber == generateBillNumber(req.now)
      bill == [userId |-> req.user, billNumber |-> billNumber,
               items |-> req.items,
               subtotal |-> req.totals.subtotal, tax |-> req.totals.tax,
               discount |-> req.totals.discount, total |-> req.totals.total,
               paymentMethod |-> req.paymentMethod,
               paymentStatus |-> "Completed",
               notes |-> req.notes, customerName |-> Undefined,
               createdAt |-> req.now, deleted |-> FALSE]
      c1 == invalidateBillListCache(s.cache, up, req.user)
      c2 == invalidateBillStatsCache(c1.cache, up)
  IN
  IF req.items = Undefined \/ Len(Val(req.items)) = 0 THEN Reply(s, 400)
  ELSE IF req.paymentMethod = "undefined" THEN Reply(s, 400)
  \* bill.save() is rejected by the unique index on billNumber
  ELSE IF BillNumberTaken(s.bills, billNumber) THEN Reply(s, 500)
  ELSE IF c1.threw \/ c2.threw
    THEN [s |-> [s EXCEPT !.bills = Append(@, bill)], resp |-> [code |-> 500]]
  ELSE [s |-> [s EXCEPT !.bills = Append(@, bill), !.cache = c2.cache],
        resp |-> [code |-> 201, bill |-> Len(s.bills) + 1]]

\* ------------------------------------------------- PUT /api/bills/:id, DELETE

invalidateBillCache(c, up, billId) ==
  CatchSet(BillRedisDel(c, up, {"bill:" \o billId} \cap DOMAIN c))

invalidateBillByNumberCache(c, up, billNumber) ==
  CatchSet(BillRedisDel(c, up, {"bill-number:" \o billNumber} \cap DOMAIN c))

\* The update copying every field of the body onto the bill.
applyUpdateAll(bill, body) ==
  [f \in DOMAIN bill |->
     IF f \in DOMAIN body /\ body[f] # Undefined
       THEN (IF f \in {"notes", "customerName", "items"} THEN body[f] ELSE Val(body[f]))
     ELSE bill[f]]

\* if (notes) bill.notes = notes, and the same for the customer's fields.
applyUpdate(bill, body) ==
  [bill EXCEPT !.notes = IF TruthyStr(body.notes) THEN body.notes ELSE @,
               !.customerName = IF TruthyStr(body.customerName)
                                  THEN body.customerName ELSE @]

UpdateBill(s, up, req) ==
  LET id == FindBill(s, req.id, req.user)
      c1 == invalidateBillCache(s.cache, up, IdStr(req.id))
  IN
  IF id = NoId THEN Reply(s, 404)
  ELSE IF c1.threw
    THEN [s |-> [s EXCEPT !.bills[id] = applyUpdate(@, req.body)],
          resp |-> [code |-> 500]]
  ELSE [s |-> [s EXCEPT !.bills[id] = applyUpdate(@, req.body), !.cache = c1.cache],
        resp |-> [code |-> 200, bill |-> id]]

DeleteBill(s, up, req) ==
  LET id == FindBill(s, req.id, req.user)
      c1 == invalidateBillCache(s.cache, up, IdStr(req.id))
      c2 == invalidateBillListCache(c1.cache, up, req.user)
  IN
  IF id = NoId THEN Reply(s, 404)
  ELSE IF c1.threw \/ c2.threw
    THEN [s |-> [s EXCEPT !.bills[id].deleted = TRUE], resp |-> [code |-> 500]]
  ELSE [s |-> [s EXCEPT !.bills[id].deleted = TRUE, !.cache = c2.cache],
        resp |-> [code |-> 200, bill |-> id]]

\* --------------------------------------------- billService read-through caches

\* redisClient.get and setEx inside billService (see BillRedisDel).
BillRedisGet(c, up, key) ==
  IF BillRedisDefined /\ up THEN [threw |-> FALSE, value |-> CacheGet(c, key)]
  ELSE [threw |-> TRUE, value |-> Undefined]

BillRedisSetEx(c, up, key, data) ==
  IF BillRedisDefined /\ up /\ data # Undefined
    THEN [threw |-> FALSE, cache |-> CacheSet(c, key, Val(data))]
  ELSE [threw |-> TRUE, cache |-> c]

\* JSON.stringify of a Bill document: the ObjectId and the date become strings.
BillJSON(bs, id) ==
  [f \in DOMAIN bs[id] \cup {"_id"} |->
     IF f = "_id" THEN IdStr(id)
     ELSE IF f = "createdAt" THEN "T" \o IdStr(bs[id].createdAt)
     ELSE bs[id][f]]

cacheBillList(c, up, userId, bills_) ==
  CatchSet(BillRedisSetEx(c, up, "bills:" \o userId, bills_))

getCachedBillList(c, up, userId) ==
  CatchGet(BillRedisGet(c, up, "bills:" \o userId))

cacheBill(c, up, billId, billData) ==
  CatchSet(BillRedisSetEx(c, up, "bill:" \o billId, billData))

getCachedBill(c, up, billId) ==
  CatchGet(BillRedisGet(c, up, "bill:" \o billId))

cacheBillByNumber(c, up, billNumber, billData) ==
  CatchSet(BillRedisSetEx(c, up, "bill-number:" \o billNumber, billData))

getCachedBillByNumber(c, up, billNumber) ==
  CatchGet(BillRedisGet(c, up, "bill-number:" \o billNumber))

cacheBillStats(c, up, statsKey, statsData) ==
  CatchSet(BillRedisSetEx(c, up, "bill-stats:" \o statsKey, statsData))

getCachedBillStats(c, up, statsKey) ==
  CatchGet(BillRedisGet(c, up, "bill-stats:" \o statsKey))

\* ------------------------------------------------------- calculateBillStats

\* A quotient of two Numbers, kept as the pair it is computed from; den = 0 is
\* the NaN or Infinity of a division by zero.
Quotient(a, b) == [num |-> a, den |-> b]

RECURSIVE Reduce(_, _, _)
\* bills.reduce((sum, bill) => sum + bill[field], 0) over the first n bills.
Reduce(bs, field, n) == IF n = 0 THEN 0 ELSE Reduce(bs, field, n - 1) + bs[n][field]

\* The average computed without looking at the number of bills.
averageBillUnguarded(totalRevenue, totalBills) == Quotient(totalRevenue, totalBills)

\* totalBills > 0 ? totalRevenue / totalBills : 0.
averageBill(totalRevenue, totalBills) ==
  IF totalBills > 0 THEN Quotient(totalRevenue, totalBills) ELSE Quotient(0, 1)

RECURSIVE Breakdown(_, _)
\* bills.forEach: the entry of the bill's method is created at { count: 0,
\* total: 0 } when absent, then counted and added to.
Breakdown(bs, n) ==
  IF n = 0 THEN [m \in {} |-> [count |-> 0, total |-> 0]]
  ELSE LET before == Breakdown(bs, n - 1)
           method == bs[n].paymentMethod
           entry == IF method \in DOMAIN before THEN before[method]
                    ELSE [count |-> 0, total |-> 0]
       IN [m \in DOMAIN before \cup {method} |->
             IF m = method
               THEN [count |-> entry.count + 1, total |-> entry.total + bs[n].total]
             ELSE before[m]]

calculateBillStats(bs) ==
  [totalBills |-> Len(bs),
   totalRevenue |-> Reduce(bs, "total", Len(bs)),
   totalTax |-> Reduce(bs, "tax", Len(bs)),
   totalDiscount |-> Reduce(bs, "discount", Len(bs)),
   averageBill |-> averageBill(Reduce(bs, "total", Len(bs)), Len(bs)),
   paymentMethodBreakdown |-> Breakdown(bs, Len(bs))]

\* GET /api/bills/summary without dates: the statistics of the user's bills.
GetSummary(s, user) ==
  LET mine == SelectSeq(s.bills, LAMBDA b : Stored(b) /\ b.userId = user)
  IN [s |-> s, resp |-> [code |-> 200, stats |-> calculateBillStats(mine)]]

\* ----------------------------------------------------------- sessionService

\* A value of the cache written with JSON.stringify, and one written as the
\* string it is: JSON.parse returns the data of the first and throws on the
\* second.
Json(data) == [kind |-> "json", data |-> data]

Raw(string) == [kind |-> "raw", data |-> string]

\* `session:${userId}:${Date.now()}`.
SessionIdOf(userId, now) == "session:" \o userId \o ":" \o IdStr(now)

\* `user:${userId}:session`.
PointerKey(userId) == "user:" \o userId \o ":session"

\* The fields of the session that the model keeps.
SessionData(userId, now) == [userId |-> userId, createdAt |-> now, lastActive |-> now]

\* NoSession: a request that carries no session id.
NoSession == "none"

createSession(c, up, userId, now) ==
  LET sessionId == SessionIdOf(userId, now)
      s1 == RedisSetEx(c, up, sessionId, Some(Json(SessionData(userId, now))))
      s2 == RedisSetEx(s1.cache, up, PointerKey(userId), Some(Raw(sessionId)))
  IN IF s1.threw THEN [threw |-> TRUE, cache |-> c, sessionId |-> NoSession]
     ELSE IF s2.threw THEN [threw |-> TRUE, cache |-> s1.cache, sessionId |-> NoSession]
     ELSE [threw |-> FALSE, cache |-> s2.cache, sessionId |-> sessionId]

\* null when the key is absent, the call rejects or the value does not parse.
getSession(c, up, sessionId) ==
  LET r == RedisGet(c, up, sessionId)
  IN IF r.threw \/ r.value = Undefined THEN Undefined
     ELSE IF Val(r.value).kind # "json" THEN Undefined
     ELSE Some(Val(r.value).data)

getUserSession(c, up, userId) ==
  LET r == RedisGet(c, up, PointerKey(userId))
  IN IF r.threw \/ r.value = Undefined THEN Undefined
     ELSE getSession(c, up, Val(r.value).data)

updateSessionActivity(c, up, sessionId, now) ==
  LET sessionData == getSession(c, up, sessionId)
      touched == [Val(sessionData) EXCEPT !.lastActive = now]
      s1 == RedisSetEx(c, up, sessionId, Some(Json(touched)))
  IN IF sessionData = Undefined THEN [cache |-> c, value |-> Undefined]
     ELSE IF s1.threw THEN [cache |-> c, value |-> Undefined]
     ELSE [cache |-> s1.cache, value |-> Some(touched)]

destroySession(c, up, sessionId, userId) ==
  LET d1 == RedisDel(c, up, sessionId)
  IN CatchSet(IF d1.threw THEN d1 ELSE RedisDel(d1.cache, up, PointerKey(userId)))

\* The middleware in front of every route: a session that is found is touched.
validateSession(c, up, sessionId, now) ==
  IF sessionId = NoSession \/ getSession(c, up, sessionId) = Undefined THEN c
  ELSE updateSessionActivity(c, up, sessionId, now).cache

\* POST /logout of the user of the token, behind the middleware.
Logout(c, up, userId, sessionId, now) ==
  LET c1 == validateSession(c, up, sessionId, now)
  IN IF sessionId = NoSession THEN c1
     ELSE destroySession(c1, up, sessionId, userId).cache

\* PUT /profile of the user of the token, behind the middleware: the session
\* of the body is destroyed and a new one created.
UpdateProfile(c, up, userId, sessionId, now) ==
  LET c1 == validateSession(c, up, sessionId, now)
      c2 == destroySession(c1, up, sessionId, userId).cache
  IN IF sessionId = NoSession THEN c1
     ELSE createSession(c2, up, userId, now).cache

\* ----------------------------------------------------------------- requests

QtyInputs == {Undefined} \cup {Some(q) : q \in -1..MaxQty}

MinStockInputs == {Undefined} \cup {Some(m) : m \in 1..MaxMinStock}

\* 0 is no id; MaxProducts + 1 is an id that no product has.
ProductIdInputs == 0..(MaxProducts + 1)

InventoryIdInputs == 1..(MaxInventory + 1)

PostInventoryRequests ==
  [productId : ProductIdInputs, barcode : BarcodeInputs,
   quantity : QtyInputs, minStock : MinStockInputs]

RegisterBarcodeRequests ==
  [barcode : BarcodeInputs, fields : BOOLEAN, quantity : QtyInputs]

UpdateInventoryRequests ==
  [id : InventoryIdInputs, quantity : QtyInputs, minStock : MinStockInputs]

AdjustQuantityRequests == [id : InventoryIdInputs, quantity : QtyInputs]

\* An item names its inventory by barcode or by product id (the barcode wins
\* when both are sent) and asks for a positive quantity.
BillItems ==
  {it \in [barcode : BarcodeInputs, id : ProductIdInputs, quantity : 1..MaxQty] :
     it.barcode = NoBarcode \/ it.id = NoId}

Faults == {"none", "inventory.save", "product.save"}

SeqsUpTo(S, n) == UNION {[1..k -> S] : k \in 0..n}

DeductBillRequests ==
  {r \in [items : SeqsUpTo(BillItems, MaxItems), faults : SeqsUpTo(Faults, MaxItems)] :
     Len(r.items) = Len(r.faults)}

InventoryQueries ==
  [warehouse : {Undefined, Some("Default"), Some("W2")},
   status : {Undefined, Some(""), Some("Low Stock")},
   search : {Undefined, Some("b1")}]

CreateProductRequests == [fields : BOOLEAN, barcode : BarcodeInputs]

UpdateProductRequests == [id : 1..(MaxProducts + 1), barcode : BarcodeInputs]

\* The items of a bill: absent, an empty array, or one line.
ItemsInputs == {Undefined, Some(<< >>), Some(<<"line1">>)}

\* subtotal, tax, discount and total as the client computed them.
TotalsInputs == [subtotal : {1}, tax : {1}, discount : 0..MaxAmount,
                 total : 1..(MaxAmount + 1)]

NotesInputs == {Undefined, Some(""), Some("n1")}

CreateBillRequests ==
  [user : Users, items : ItemsInputs, totals : TotalsInputs,
   paymentMethod : {"Cash", "undefined"}, notes : {Undefined},
   now : 1..MaxClock]

\* u2 owns no bill.
Requesters == Users \cup {"u2"}

\* The body of an update: the fields the handler reads and some it does not.
UpdateBillBodies ==
  [notes : NotesInputs, customerName : {Undefined, Some("c1")},
   total : {Undefined, Some(0)}, paymentStatus : {Undefined, Some("Failed")},
   items : {Undefined, Some(<< >>)}]

UpdateBillRequests ==
  [id : 1..(MaxBills + 1), user : Requesters, body : UpdateBillBodies]

DeleteBillRequests == [id : 1..(MaxBills + 1), user : Requesters]

\* What cacheProduct is given: nothing, or a product as the store holds it.
ProductDataInputs ==
  {Undefined} \cup
  {Some([_id |-> "1", barcode |-> "b1", stock |-> Some(q), active |-> TRUE]) :
     q \in 0..MaxQty}

ProductKeyIds == {IdStr(i) : i \in 1..(MaxProducts + 1)}

\* The requests that can be in flight together.
Procs == {"r1", "r2", "r3"}

\* A request that has not arrived.  Of a request that has: its handler (op),
\* the Inventory document it addresses (id), its delta or quantity (arg), the
\* quantity it read (read), the document in its memory (doc) and its answer.
\* Of a request with a session: the user of its token (user), the session id
\* it carries (sid) and the one it has created (made).
Idle ==
  [pc |-> "idle", op |-> "none", id |-> NoId, arg |-> 0, read |-> 0,
   doc |-> Undefined, outcome |-> "none", user |-> "none", sid |-> NoSession,
   made |-> NoSession]

\* Concurrent requests address the first document or one that does not exist.
RaceIds == 1..2

RaceDeltas == {-1, 1}

RaceQuantities == {0, MaxQty + 1}

\* One item for the stock under the barcode, or for a product without stock.
RaceItems ==
  {[barcode |-> "b1", id |-> NoId, quantity |-> 1],
   [barcode |-> NoBarcode, id |-> MaxProducts + 1, quantity |-> 1]}

NoRequests == [p \in Procs |-> Idle]

\* ------------------------------------------------------------------ actions

Init ==
  /\ products = << >>
  /\ inventory = << >>
  /\ bills = << >>
  /\ cache = EmptyCache
  /\ last = [op |-> "start", up |-> TRUE, code |-> 0, inv |-> NoId,
             outcomes |-> << >>]
  /\ requests = NoRequests

\* The part of the state space that is explored.
WithinBounds(s) ==
  /\ Len(s.products) <= MaxProducts
  /\ Len(s.inventory) <= MaxInventory
  /\ Len(s.bills) <= MaxBills
  /\ \A i \in 1..Len(s.inventory) :
       s.inventory[i].quantity \in (0 - QtyLimit)..QtyLimit

\* What is kept of a request and its response: whether the cache answered
\* (up), the status code, the inventory document returned (if any) and, for
\* deduct-bill, what became of each item.
Summary(op, up, resp) ==
  [op |-> op,
   up |-> up,
   code |-> resp.code,
   inv |-> IF "inv" \in DOMAIN resp THEN resp.inv ELSE NoId,
   outcomes |-> IF "log" \in DOMAIN resp
                  THEN [k \in 1..Len(resp.log) |-> resp.log[k].outcome]
                ELSE << >>]

\* The request is served: the state becomes r.s and the response is kept.
Serve(op, up, r) ==
  /\ WithinBounds(r.s)
  /\ products' = r.s.products
  /\ inventory' = r.s.inventory
  /\ bills' = r.s.bills
  /\ cache' = r.s.cache
  /\ last' = Summary(op, up, r.resp)
  /\ UNCHANGED requests

DoPostInventory ==
  \E req \in PostInventoryRequests : Serve("postInventory", TRUE, PostInventory(State, req))

DoRegisterBarcode ==
  \E req \in RegisterBarcodeRequests :
    Serve("registerBarcode", TRUE, RegisterBarcode(State, req))

DoUpdateInventory ==
  \E req \in UpdateInventoryRequests :
    Serve("updateInventory", TRUE, UpdateInventory(State, req))

DoAdjustQuantity ==
  \E req \in AdjustQuantityRequests :
    Serve("adjustQuantity", TRUE, AdjustQuantity(State, req))

DoDeductBill ==
  \E req \in DeductBillRequests :
    Serve("deductBill", TRUE, DeductBill(State, req.items, req.faults))

DoGetInventoryList ==
  \E up \in BOOLEAN : Serve("getInventoryList", up, GetInventoryList(State, up))

DoGetInventory ==
  \E up \in BOOLEAN, q \in InventoryQueries :
    Serve("getInventory", up, GetInventory(State, up, q))

DoGetProductByBarcode ==
  \E up \in BOOLEAN, b \in Barcodes :
    Serve("getProductByBarcode", up, GetProductByBarcode(State, up, b))

DoCreateProduct ==
  \E req \in CreateProductRequests : Serve("createProduct", TRUE, CreateProduct(State, req))

DoUpdateProduct ==
  \E req \in UpdateProductRequests : Serve("updateProduct", TRUE, UpdateProduct(State, req))

DoDeleteProduct ==
  \E id \in 1..(MaxProducts + 1) : Serve("deleteProduct", TRUE, DeleteProduct(State, id))

\* Date.now() does not run backwards: the reading is no earlier than any bill.
DoCreateBill ==
  \E up \in BOOLEAN, req \in CreateBillRequests :
    /\ \A i \in 1..Len(bills) : bills[i].createdAt <= req.now
    /\ Serve("createBill", up, CreateBill(State, up, req))

DoUpdateBill ==
  \E up \in BOOLEAN, req \in UpdateBillRequests :
    Serve("updateBill", up, UpdateBill(State, up, req))

DoDeleteBill ==
  \E up \in BOOLEAN, req \in DeleteBillRequests :
    Serve("deleteBill", up, DeleteBill(State, up, req))

DoGetSummary ==
  \E user \in Users :
    LET r == GetSummary(State, user)
    IN /\ last' = [op |-> "getSummary", up |-> TRUE, code |-> r.resp.code,
                   inv |-> NoId, outcomes |-> << >>, stats |-> r.resp.stats]
       /\ UNCHANGED <<products, inventory, bills, cache, requests>>

\* What is kept of a call of a cacheService helper: the keys it removed and
\* the value it returned.
HelperCall(op, up, c, value) ==
  [op |-> op, up |-> up, code |-> 0, inv |-> NoId, outcomes |-> << >>,
   removed |-> DOMAIN cache \ DOMAIN c, value |-> value]

DoCacheProduct ==
  \E up \in BOOLEAN, id \in ProductKeyIds, v \in ProductDataInputs :
    LET r == cacheProduct(cache, up, id, v)
    IN /\ cache' = r.cache
       /\ last' = HelperCall("cacheProduct", up, r.cache, Undefined)
       /\ UNCHANGED <<products, inventory, bills, requests>>

DoCacheProductByBarcode ==
  \E up \in BOOLEAN, b \in Barcodes, v \in ProductDataInputs :
    LET r == cacheProductByBarcode(cache, up, b, v)
    IN /\ cache' = r.cache
       /\ last' = HelperCall("cacheProductByBarcode", up, r.cache, Undefined)
       /\ UNCHANGED <<products, inventory, bills, requests>>

DoInvalidateProductCache ==
  \E up \in BOOLEAN, id \in ProductKeyIds, b \in BarcodeInputs :
    LET r == invalidateProductCache(cache, up, id, b)
    IN /\ cache' = r.cache
       /\ last' = HelperCall("invalidateProductCache", up, r.cache, Undefined)
       /\ UNCHANGED <<products, inventory, bills, requests>>

DoGetCachedProduct ==
  \E up \in BOOLEAN, id \in ProductKeyIds :
    LET r == getCachedProduct(cache, up, id)
    IN /\ last' = HelperCall("getCachedProduct", up, cache, r.value)
       /\ UNCHANGED <<products, inventory, bills, cache, requests>>

\* A request has arrived and read or written the store once.
Arrived(p, op, id, arg, loaded, outcome) ==
  requests' = [requests EXCEPT ![p] =
    [Idle EXCEPT !.pc = IF outcome = "none" THEN "save" ELSE "done",
                 !.op = op, !.id = id, !.arg = arg,
                 !.read = IF loaded = Undefined THEN 0 ELSE Val(loaded).quantity,
                 !.doc = loaded, !.outcome = outcome]]

\* adjust-quantity up to its findById.
AdjustRead(p) ==
  /\ requests[p].pc = "idle"
  /\ \E id \in RaceIds, delta \in RaceDeltas :
       LET loaded == findInventoryById(State, id)
       IN Arrived(p, "adjust", id, delta, loaded,
                  IF loaded = Undefined THEN "404" ELSE "none")
  /\ UNCHANGED <<products, inventory, bills, cache, last>>

\* deduct-bill with one item up to the sufficiency check on what findOne
\* returned.
DeductRead(p) ==
  /\ requests[p].pc = "idle"
  /\ \E item \in RaceItems :
       LET found == IF item.barcode # NoBarcode
                      THEN FindInventoryByBarcode(inventory, item.barcode)
                    ELSE FindInventoryByProduct(inventory, item.id)
           loaded == findInventoryById(State, found)
       IN Arrived(p, "deduct", found, item.quantity, loaded,
                  IF found = NoId THEN "Inventory item not found"
                  ELSE IF Insufficient(Val(loaded).quantity, item.quantity)
                    THEN "Insufficient quantity"
                  ELSE "none")
  /\ UNCHANGED <<products, inventory, bills, cache, last>>

\* PUT /api/inventory/:id up to its findByIdAndUpdate, which writes the
\* quantity of the body and returns the document as it then is.
UpdateWrite(p) ==
  /\ requests[p].pc = "idle"
  /\ \E id \in RaceIds, quantity \in RaceQuantities :
       IF id \in 1..Len(inventory)
         THEN /\ inventory' = [inventory EXCEPT ![id].quantity = quantity]
              /\ Arrived(p, "update", id, quantity,
                         Some([inventory[id] EXCEPT !.quantity = quantity]), "none")
       ELSE /\ inventory' = inventory
            /\ Arrived(p, "update", id, quantity, Undefined, "404")
  /\ UNCHANGED <<products, bills, cache, last>>

\* The status is assigned and inventory.save() runs.
SaveInventory(p) ==
  /\ requests[p].pc = "save"
  /\ LET r == requests[p]
         local == Local(r)
     IN /\ inventory' = [inventory EXCEPT ![r.id] = SaveModified(@, Val(r.doc), local)]
        /\ requests' = [requests EXCEPT ![p].pc = "mirror", ![p].doc = Some(local)]
  /\ UNCHANGED <<products, bills, cache, last>>

\* The product is loaded, its stock assigned and saved, and the response sent.
SaveProduct(p) ==
  /\ requests[p].pc = "mirror"
  /\ LET r == requests[p]
         local == Val(r.doc)
     IN /\ products' = [products EXCEPT ![local.productId].stock =
                          Some(IF r.op = "update" THEN r.arg ELSE local.quantity)]
        /\ requests' = [requests EXCEPT ![p].pc = "done",
                           ![p].outcome = IF r.op = "deduct" THEN "deducted" ELSE "200"]
  /\ UNCHANGED <<inventory, bills, cache, last>>

\* The session ids that createSession has made, and those that a response
\* has handed to a client.
Made == {requests[q].made : q \in Procs} \ {NoSession}

Issued == {requests[q].made : q \in {x \in Procs : requests[x].pc = "done"}} \ {NoSession}

\* Where a request goes after the middleware: to its response, or to
\* destroySession when it is a logout or a profile update with a session id.
AfterMiddleware(r) ==
  IF r.op = "request" \/ r.sid = NoSession THEN "done" ELSE "destroy"

\* createSession up to its first setEx, for a login that has arrived or a
\* profile update that has destroyed the old session.  Date.now() does not run
\* backwards and gives a user two sessions in two different milliseconds.
CreateWrite(p) ==
  /\ requests[p].pc \in {"idle", "create"}
  /\ \E u \in Requesters, now \in 1..MaxClock :
       /\ requests[p].pc = "create" => u = requests[p].user
       /\ SessionIdOf(u, now) \notin Made
       /\ \A q \in Procs : requests[q].made # NoSession => requests[q].arg <= now
       /\ cache' = RedisSetEx(cache, TRUE, SessionIdOf(u, now),
                              Some(Json(SessionData(u, now)))).cache
       /\ requests' = [requests EXCEPT ![p] =
            [requests[p] EXCEPT !.pc = "pointer",
                                !.op = IF requests[p].pc = "idle" THEN "login" ELSE @,
                                !.user = u, !.arg = now,
                                !.made = SessionIdOf(u, now)]]
  /\ UNCHANGED <<products, inventory, bills, last>>

\* The second setEx of createSession and the response with the session id.
PointerWrite(p) ==
  /\ requests[p].pc = "pointer"
  /\ cache' = RedisSetEx(cache, TRUE, PointerKey(requests[p].user),
                         Some(Raw(requests[p].made))).cache
  /\ requests' = [requests EXCEPT ![p].pc = "done", ![p].outcome = "200"]
  /\ UNCHANGED <<products, inventory, bills, last>>

\* A request arrives with the session id of an earlier response, or none,
\* and the middleware runs its getSession.
SessionArrive(p) ==
  /\ requests[p].pc = "idle"
  /\ \E op \in {"request", "logout", "profile"}, u \in Requesters,
        sid \in Issued \cup {NoSession} :
       LET r == [Idle EXCEPT !.op = op, !.sid = sid,
                             !.user = IF op = "request" THEN "none" ELSE u]
           found == sid # NoSession /\ getSession(cache, TRUE, sid) # Undefined
       IN requests' = [requests EXCEPT ![p] =
            [r EXCEPT !.pc = IF found THEN "touch" ELSE AfterMiddleware(r)]]
  /\ UNCHANGED <<products, inventory, bills, cache, last>>

\* updateSessionActivity up to its getSession: the data read is kept with a
\* new lastActive.
Touch(p) ==
  /\ requests[p].pc = "touch"
  /\ LET r == requests[p]
         sessionData == getSession(cache, TRUE, r.sid)
     IN IF sessionData = Undefined
          THEN requests' = [requests EXCEPT ![p].pc = AfterMiddleware(r)]
        ELSE \E now \in Val(sessionData).lastActive..MaxClock :
               requests' = [requests EXCEPT
                 ![p].pc = "write",
                 ![p].doc = Some([Val(sessionData) EXCEPT !.lastActive = now])]
  /\ UNCHANGED <<products, inventory, bills, cache, last>>

\* The setEx of updateSessionActivity.
WriteBack(p) ==
  /\ requests[p].pc = "write"
  /\ cache' = RedisSetEx(cache, TRUE, requests[p].sid,
                         Some(Json(Val(requests[p].doc)))).cache
  /\ requests' = [requests EXCEPT ![p].pc = AfterMiddleware(requests[p])]
  /\ UNCHANGED <<products, inventory, bills, last>>

\* The first del of destroySession.
DestroyDel(p) ==
  /\ requests[p].pc = "destroy"
  /\ cache' = RedisDel(cache, TRUE, requests[p].sid).cache
  /\ requests' = [requests EXCEPT ![p].pc = "unpoint"]
  /\ UNCHANGED <<products, inventory, bills, last>>

\* The second del of destroySession; a logout then answers and a profile
\* update goes on to createSession.
Unpoint(p) ==
  /\ requests[p].pc = "unpoint"
  /\ cache' = RedisDel(cache, TRUE, PointerKey(requests[p].user)).cache
  /\ requests' = [requests EXCEPT
       ![p].pc = IF requests[p].op = "profile" THEN "create" ELSE "done",
       ![p].outcome = IF requests[p].op = "profile" THEN "none" ELSE "200"]
  /\ UNCHANGED <<products, inventory, bills, last>>

\* A cache entry reaches its expiry.
Expire ==
  /\ \E k \in DOMAIN cache : cache' = CacheDel(cache, k)
  /\ UNCHANGED <<products, inventory, bills, last, requests>>

Next ==
  \/ DoPostInventory
  \/ DoRegisterBarcode
  \/ DoUpdateInventory
  \/ DoAdjustQuantity
  \/ DoDeductBill
  \/ DoCreateProduct

Spec == Init /\ [][Next]_vars

\* The cached reads, expiry and bill creation beside the mutations that make a
\* cached product stale.
NextCache ==
  \/ DoRegisterBarcode
  \/ DoAdjustQuantity
  \/ DoGetInventoryList
  \/ DoGetInventory
  \/ DoGetProductByBarcode
  \/ DoUpdateProduct
  \/ DoDeleteProduct
  \/ DoCreateBill
  \/ Expire

CacheSpec == Init /\ [][NextCache]_vars

\* The bill routes.
NextBill ==
  \/ DoCreateBill
  \/ DoUpdateBill
  \/ DoDeleteBill

BillSpec == Init /\ [][NextBill]_vars

\* The store after register-barcode has created the stock of a new product.
Seeded ==
  RegisterBarcode([products |-> << >>, inventory |-> << >>, bills |-> << >>,
                   cache |-> EmptyCache],
                  [barcode |-> "b1", fields |-> TRUE, quantity |-> Some(0)])

InitRace ==
  /\ products = Seeded.s.products
  /\ inventory = Seeded.s.inventory
  /\ bills = << >>
  /\ cache = EmptyCache
  /\ last = Summary("registerBarcode", TRUE, Seeded.resp)
  /\ requests = NoRequests

\* Inventory requests on one document, their store accesses interleaved.
NextRace ==
  \E p \in Procs :
    \/ AdjustRead(p)
    \/ DeductRead(p)
    \/ UpdateWrite(p)
    \/ SaveInventory(p)
    \/ SaveProduct(p)

RaceSpec == InitRace /\ [][NextRace]_vars

\* Logins, logouts, profile updates and other requests with a session id,
\* their cache accesses interleaved.
NextSession ==
  \E p \in Procs :
    \/ CreateWrite(p)
    \/ PointerWrite(p)
    \/ SessionArrive(p)
    \/ Touch(p)
    \/ WriteBack(p)
    \/ DestroyDel(p)
    \/ Unpoint(p)

SessionSpec == Init /\ [][NextSession]_vars

\* The product helpers of cacheService called in any order.
NextProductCache ==
  \/ DoCacheProduct
  \/ DoCacheProductByBarcode
  \/ DoInvalidateProductCache
  \/ DoGetCachedProduct

ProductCacheSpec == Init /\ [][NextProductCache]_vars

\* The bills that statistics are computed over: up to MaxStatBills bills as
\* POST /api/bills stores them, with every choice of amounts and method.
StatBill(i, amounts) ==
  [userId |-> "u1", billNumber |-> generateBillNumber(i),
   items |-> Some(<<"line1">>),
   subtotal |-> 1, tax |-> amounts.tax, discount |-> amounts.discount,
   total |-> amounts.total, paymentMethod |-> amounts.paymentMethod,
   paymentStatus |-> "Completed", notes |-> Undefined, customerName |-> Undefined,
   createdAt |-> i, deleted |-> FALSE]

StatAmounts ==
  [tax : 0..MaxAmount, discount : 0..MaxAmount, total : 1..(MaxAmount + 1),
   paymentMethod : {"Cash", "Card"}]

InitStats ==
  /\ products = << >>
  /\ inventory = << >>
  /\ cache = EmptyCache
  /\ \E n \in 0..MaxStatBills :
       \E amounts \in [1..n -> StatAmounts] :
         bills = [i \in 1..n |-> StatBill(i, amounts[i])]
  /\ last = [op |-> "start", up |-> TRUE, code |-> 0, inv |-> NoId,
             outcomes |-> << >>]
  /\ requests = NoRequests

StatsSpec == InitStats /\ [][DoGetSummary]_vars

\* ================================================================== claims

\* The handlers that write an Inventory document and answer with it.
RecordOps == {"postInventory", "registerBarcode", "updateInventory", "adjustQuantity"}

Succeeded == last.code \in {200, 201}

\* The last request was a successful write of one Inventory document.
WroteRecord == last.op \in RecordOps /\ Succeeded /\ last.inv # NoId

\* ------------------------------------------------------------------------ C1
\* C1: after any completed inventory mutation, run one at a time in any
\* order, every Inventory document's stored status is "Out of Stock" when its
\* quantity is 0, "Low Stock" when its quantity is at most its minStock, and
\* "In Stock" otherwise.
C1_StatusMatchesQuantity ==
  \A i \in 1..Len(inventory) :
    inventory[i].status =
      IF inventory[i].quantity = 0 THEN "Out of Stock"
      ELSE IF inventory[i].quantity <= inventory[i].minStock THEN "Low Stock"
      ELSE "In Stock"

\* An update has just left a document whose quantity equals its threshold
\* beside the statuses on both sides of it.
C1_Witness ==
  /\ WroteRecord
  /\ inventory[last.inv].quantity = inventory[last.inv].minStock
  /\ inventory[last.inv].status = "Low Stock"
  /\ \E i \in 1..Len(inventory) : inventory[i].status = "In Stock"

\* ------------------------------------------------------------------------ C2
\* C2: in every reachable state each Product is referenced by at most one
\* Inventory document.
C2_OneInventoryPerProduct ==
  \A i, j \in 1..Len(inventory) :
    inventory[i].productId = inventory[j].productId => i = j

\* ------------------------------------------------------------------------ C3
\* C3: from a state with no Inventory document for barcode b, two successive
\* POST /api/inventory calls with barcode b and quantities q1 and q2, with or
\* without the id of an existing product, leave exactly one document with
\* barcode b, and its quantity is q1 + q2.
C3_TwiceSameBarcodeAccumulates ==
  \A b \in Barcodes, p \in {NoId} \cup (1..Len(products)), q1, q2 \in 1..MaxQty :
    FindInventoryByBarcode(inventory, b) = NoId =>
      LET Req(q) == [productId |-> p, barcode |-> b, quantity |-> Some(q),
                     minStock |-> Undefined]
          first == PostInventory(State, Req(q1))
          second == PostInventory(first.s, Req(q2))
          m == {i \in 1..Len(second.s.inventory) : second.s.inventory[i].barcode = b}
      IN /\ Cardinality(m) = 1
         /\ \A i \in m : second.s.inventory[i].quantity = q1 + q2

\* ------------------------------------------------------------------------ C4
\* C4: after a successful add/restock, register-barcode, update or
\* adjust-quantity, the Product that the written Inventory document references
\* has stock equal to the document's quantity.
C4_StockMirrorsQuantity ==
  WroteRecord =>
    products[inventory[last.inv].productId].stock = Some(inventory[last.inv].quantity)

\* ------------------------------------------------------------------------ C5
RECURSIVE SumTo(_, _)
\* f[1] + ... + f[n].
SumTo(f, n) == IF n = 0 THEN 0 ELSE f[n] + SumTo(f, n - 1)

\* The quantity that the first k items of a deduct-bill request took from
\* document i, going by what became of each item.
Taken(items, log, i, k) ==
  SumTo([j \in 1..Len(items) |->
           IF log[j].inv = i /\ log[j].outcome = "deducted"
             THEN items[j].quantity ELSE 0], k)

\* C5: in deduct-bill an item whose inventory is found is refused as
\* insufficient exactly when it asks for more than the document holds when the
\* item is processed, and (the store not failing on it) deducted exactly when
\* it asks for at most that.  With no store failure every document ends with
\* its quantity less what the deducted items took, a document none of whose
\* items were deducted is unchanged, status included, every refused item is in
\* errors with the insufficient-quantity message, and all items are processed.
C5_DeductChecksAvailability ==
  \A req \in DeductBillRequests :
    Len(req.items) > 0 =>
      LET r == DeductBill(State, req.items, req.faults)
          log == r.resp.log
          n == Len(req.items)
      IN /\ Len(log) = n
         /\ \A k \in 1..n :
              log[k].inv # NoId =>
                /\ (log[k].outcome = "Insufficient quantity")
                     <=> (req.items[k].quantity > log[k].available)
                /\ req.faults[k] = "none" =>
                     ((log[k].outcome = "deducted")
                        <=> (req.items[k].quantity <= log[k].available))
         /\ (\A k \in 1..n : req.faults[k] = "none") =>
              /\ \A k \in 1..n :
                   log[k].inv # NoId =>
                     log[k].available =
                       inventory[log[k].inv].quantity
                         - Taken(req.items, log, log[k].inv, k - 1)
              /\ \A i \in 1..Len(inventory) :
                   /\ r.s.inventory[i].quantity =
                        inventory[i].quantity - Taken(req.items, log, i, n)
                   /\ (\A k \in 1..n : ~(log[k].inv = i /\ log[k].outcome = "deducted"))
                        => r.s.inventory[i] = inventory[i]
              /\ Len(r.resp.errors) =
                   Cardinality({k \in 1..n : log[k].outcome # "deducted"})
              /\ \A k \in 1..n :
                   log[k].outcome = "Insufficient quantity" =>
                     \E e \in 1..Len(r.resp.errors) :
                       /\ r.resp.errors[e].error = "Insufficient quantity"
                       /\ r.resp.errors[e].product = ItemLabel(req.items[k])

\* A deduct-bill call has refused its first item as insufficient and deducted
\* its second.
C5_Witness ==
  /\ last.op = "deductBill"
  /\ last.code = 200
  /\ last.outcomes = <<"Insufficient quantity", "deducted">>

\* ------------------------------------------------------------------------ C6
\* C6: deduct-bill with a non-empty array of items answers 200 whatever
\* happens to the items (inventory absent, insufficient stock, a store call
\* rejecting), and every item is in exactly one of deductedItems and errors:
\* the deducted items are as many as deductedItems, the others as many as
\* errors, and the two lists together as many as the items.
C6_DeductNeverFailsAsAWhole ==
  \A req \in DeductBillRequests :
    Len(req.items) > 0 =>
      LET r == DeductBill(State, req.items, req.faults)
          n == Len(req.items)
          done == {k \in 1..n : r.resp.log[k].outcome = "deducted"}
      IN /\ r.resp.code = 200
         /\ Len(r.resp.log) = n
         /\ Len(r.resp.deductedItems) = Cardinality(done)
         /\ Len(r.resp.errors) = n - Cardinality(done)
         /\ Len(r.resp.deductedItems) + Len(r.resp.errors) = n

\* A deduct-bill call has answered 200 with one item lost to a store error and
\* the other deducted.
C6_Witness ==
  /\ last.op = "deductBill"
  /\ last.code = 200
  /\ last.outcomes = <<"store error", "deducted">>

\* ------------------------------------------------------------------------ C7
\* C7: after a successful add/restock, register-barcode, update or
\* adjust-quantity the cache holds no Inventory list, no entry for the written
\* document, and no entry for its Product by id or by barcode.
C7_MutationInvalidatesCache ==
  WroteRecord =>
    LET doc == inventory[last.inv]
    IN /\ "inventory:list" \notin DOMAIN cache
       /\ ("inventory:" \o IdStr(last.inv)) \notin DOMAIN cache
       /\ ("product:" \o IdStr(doc.productId)) \notin DOMAIN cache
       /\ ("barcode:" \o doc.barcode) \notin DOMAIN cache

\* ------------------------------------------------------------------------ C8
\* The persistent store of a state: everything but the cache.
StoreOf(s) == <<s.products, s.inventory, s.bills>>

\* The current state with the cache replaced by c.
WithCache(c) == [State EXCEPT !.cache = c]

\* A cache in which every key the services use holds an entry that disagrees
\* with the store.
StaleCache ==
  LET product == [_id |-> "1", barcode |-> "b1", stock |-> Some(QtyLimit + 1),
                  active |-> TRUE]
      doc == [productId |-> 1, barcode |-> "b1", quantity |-> QtyLimit + 1,
              minStock |-> DefaultMinStock, status |-> "In Stock"]
      Entry(k) == IF k \in {"barcode:b1", "product:1"} THEN product
                  ELSE IF k \in {"inventory:1", "inventory:2", "inventory:3"} THEN doc
                  ELSE <<doc>>
  IN [k \in {"barcode:b1", "product:1", "products:list", "inventory:1",
             "inventory:2", "inventory:3", "inventory:list", "inventory:undefined",
             "inventory:", "inventory:[documents]", "bills:u1", "bill-stats:daily"}
        |-> Entry(k)]

\* C8: for every request of every handler, the products, inventory and bills
\* that the request leaves are the same whether it runs against the cache as
\* it is, an empty cache or a cache full of stale entries, and whether or not
\* the cache answers.
C8_CacheNeverInfluencesStore ==
  \A c \in {EmptyCache, StaleCache} :
    /\ \A req \in PostInventoryRequests :
         StoreOf(PostInventory(WithCache(c), req).s) = StoreOf(PostInventory(State, req).s)
    /\ \A req \in RegisterBarcodeRequests :
         StoreOf(RegisterBarcode(WithCache(c), req).s)
           = StoreOf(RegisterBarcode(State, req).s)
    /\ \A req \in UpdateInventoryRequests :
         StoreOf(UpdateInventory(WithCache(c), req).s)
           = StoreOf(UpdateInventory(State, req).s)
    /\ \A req \in AdjustQuantityRequests :
         StoreOf(AdjustQuantity(WithCache(c), req).s)
           = StoreOf(AdjustQuantity(State, req).s)
    /\ \A req \in DeductBillRequests :
         StoreOf(DeductBill(WithCache(c), req.items, req.faults).s)
           = StoreOf(DeductBill(State, req.items, req.faults).s)
    /\ \A req \in CreateProductRequests :
         StoreOf(CreateProduct(WithCache(c), req).s) = StoreOf(CreateProduct(State, req).s)
    /\ \A req \in UpdateProductRequests :
         StoreOf(UpdateProduct(WithCache(c), req).s) = StoreOf(UpdateProduct(State, req).s)
    /\ \A id \in 1..(MaxProducts + 1) :
         StoreOf(DeleteProduct(WithCache(c), id).s) = StoreOf(DeleteProduct(State, id).s)
    /\ \A up \in BOOLEAN :
         /\ StoreOf(GetInventoryList(WithCache(c), up).s) = StoreOf(State)
         /\ \A b \in Barcodes :
              StoreOf(GetProductByBarcode(WithCache(c), up, b).s) = StoreOf(State)
         /\ \A req \in CreateBillRequests :
              StoreOf(CreateBill(WithCache(c), up, req).s)
                = StoreOf(CreateBill(State, TRUE, req).s)
         /\ \A req \in UpdateBillRequests :
              StoreOf(UpdateBill(WithCache(c), up, req).s)
                = StoreOf(UpdateBill(State, TRUE, req).s)
         /\ \A req \in DeleteBillRequests :
              StoreOf(DeleteBill(WithCache(c), up, req).s)
                = StoreOf(DeleteBill(State, TRUE, req).s)

\* An adjust-quantity has succeeded while the cache holds the product under its
\* barcode with a stock that is no longer the product's.
C8_Witness ==
  /\ last.op = "adjustQuantity"
  /\ Succeeded
  /\ "barcode:b1" \in DOMAIN cache
  /\ \E p \in 1..Len(products) :
       /\ products[p].barcode = "b1"
       /\ cache["barcode:b1"].stock # products[p].stock

\* ------------------------------------------------------------------------ C9
\* C9: a request served while every cache call rejects gets the response it
\* would get with the cache answering and empty, and leaves the same store:
\* the two cached reads never answer 500, and creating a bill answers as it
\* does with a working cache.
C9_CacheFailureIsAMiss ==
  LET cold == WithCache(EmptyCache)
  IN /\ GetInventoryList(State, FALSE).resp = GetInventoryList(cold, TRUE).resp
     /\ GetInventoryList(State, FALSE).resp.code = 200
     /\ StoreOf(GetInventoryList(State, FALSE).s) = StoreOf(State)
     /\ \A b \in Barcodes :
          /\ GetProductByBarcode(State, FALSE, b).resp
               = GetProductByBarcode(cold, TRUE, b).resp
          /\ GetProductByBarcode(State, FALSE, b).resp.code \in {200, 404}
          /\ StoreOf(GetProductByBarcode(State, FALSE, b).s) = StoreOf(State)
     /\ \A req \in CreateBillRequests :
          /\ CreateBill(State, FALSE, req).resp = CreateBill(cold, TRUE, req).resp
          /\ StoreOf(CreateBill(State, FALSE, req).s)
               = StoreOf(CreateBill(cold, TRUE, req).s)
     /\ \A req \in UpdateBillRequests :
          /\ UpdateBill(State, FALSE, req).resp = UpdateBill(cold, TRUE, req).resp
          /\ StoreOf(UpdateBill(State, FALSE, req).s)
               = StoreOf(UpdateBill(cold, TRUE, req).s)
     /\ \A req \in DeleteBillRequests :
          /\ DeleteBill(State, FALSE, req).resp = DeleteBill(cold, TRUE, req).resp
          /\ StoreOf(DeleteBill(State, FALSE, req).s)
               = StoreOf(DeleteBill(cold, TRUE, req).s)

\* A product has been read by barcode successfully while the cache was
\* rejecting every call.
C9_Witness ==
  /\ last.op = "getProductByBarcode"
  /\ ~last.up
  /\ last.code = 200

\* ----------------------------------------------------------------------- C10
\* C10 as stated: every Inventory document has quantity >= 0 in every
\* reachable state.
C10_QuantityNeverNegative ==
  \A i \in 1..Len(inventory) : inventory[i].quantity >= 0

\* Every document of s2 that is new or was at quantity >= 0 has quantity >= 0.
KeepsNonNegative(s2) ==
  \A j \in 1..Len(s2.inventory) :
    (j <= Len(inventory) => inventory[j].quantity >= 0) => s2.inventory[j].quantity >= 0

NonNegative(x) == x = Undefined \/ Val(x) >= 0

\* Deduct-bill items with any sign of quantity.
SignedBillItems ==
  {it \in [barcode : BarcodeInputs, id : ProductIdInputs, quantity : -1..MaxQty] :
     it.barcode = NoBarcode \/ it.id = NoId}

\* C10 amended: deduct-bill with positive item quantities never takes a
\* document from a quantity >= 0 to a quantity < 0, whatever store call fails;
\* add/restock, register-barcode, update and adjust-quantity leave every such
\* document, and every document they create, at a quantity >= 0 when the
\* quantity they are given is >= 0; and a single deduct-bill item of any sign
\* does not take a document below 0 either.
C10_NonNegativeArgumentsKeepNonNegative ==
  /\ \A req \in DeductBillRequests :
       KeepsNonNegative(DeductBill(State, req.items, req.faults).s)
  /\ \A it \in SignedBillItems, f \in Faults :
       KeepsNonNegative(DeductBill(State, <<it>>, <<f>>).s)
  /\ \A req \in PostInventoryRequests :
       NonNegative(req.quantity) => KeepsNonNegative(PostInventory(State, req).s)
  /\ \A req \in RegisterBarcodeRequests :
       NonNegative(req.quantity) => KeepsNonNegative(RegisterBarcode(State, req).s)
  /\ \A req \in UpdateInventoryRequests :
       NonNegative(req.quantity) => KeepsNonNegative(UpdateInventory(State, req).s)
  /\ \A req \in AdjustQuantityRequests :
       NonNegative(req.quantity) => KeepsNonNegative(AdjustQuantity(State, req).s)

\* A deduct-bill call has emptied a document with its first item and refused
\* its second for want of stock.
C10_Witness ==
  /\ last.op = "deductBill"
  /\ last.outcomes = <<"deducted", "Insufficient quantity">>
  /\ \E i \in 1..Len(inventory) : inventory[i].quantity = 0

\* ----------------------------------------------------------------------- C11
\* The deltas of the round trip: enough to take any explored quantity to zero
\* and below.
Deltas == (0 - (QtyLimit + 1))..(QtyLimit + 1)

\* C11: for every Inventory document and every integer d, adjust-quantity by
\* -d followed at once by adjust-quantity by +d answers 200 both times and
\* leaves the document's quantity and status as they were before the first
\* call, whatever the quantity in between.
C11_AdjustRoundTrip ==
  \A i \in 1..Len(inventory), d \in Deltas :
    LET first == AdjustQuantity(State, [id |-> i, quantity |-> Some(0 - d)])
        second == AdjustQuantity(first.s, [id |-> i, quantity |-> Some(d)])
    IN /\ first.resp.code = 200
       /\ second.resp.code = 200
       /\ first.s.inventory[i].quantity = inventory[i].quantity - d
       /\ second.s.inventory[i].quantity = inventory[i].quantity
       /\ second.s.inventory[i].status = inventory[i].status

\* An adjust-quantity has just taken a document below zero: the first half of
\* a round trip through a negative quantity.
C11_Witness ==
  /\ last.op = "adjustQuantity"
  /\ Succeeded
  /\ inventory[last.inv].quantity < 0
  /\ inventory[last.inv].status = "Low Stock"

\* ----------------------------------------------------------------------- C12
\* The response is an error and the request has changed nothing, in the store
\* or in the cache.
Rejected(r, code) == r.resp.code = code /\ r.s = State

\* C12: add/restock with neither productId nor barcode answers 400 and with
\* an unknown productId 404 (400 when the quantity is missing too);
\* adjust-quantity without a delta answers 400 and with an unknown inventory
\* id 404; deduct-bill with no items answers 400; creating a bill with no
\* items or no payment method answers 400; and each of these, like every
\* other 400 or 404 of the inventory handlers, leaves every Inventory, Product
\* and Bill document as it was.
C12_RejectionChangesNothing ==
  /\ \A req \in PostInventoryRequests :
       LET r == PostInventory(State, req)
       IN /\ (req.productId = NoId /\ req.barcode = NoBarcode) => Rejected(r, 400)
          /\ (req.productId # NoId /\ req.productId \notin 1..Len(products)) =>
               Rejected(r, IF Truthy(req.quantity) THEN 404 ELSE 400)
          /\ r.resp.code \in {400, 404} => r.s = State
  /\ \A req \in AdjustQuantityRequests :
       LET r == AdjustQuantity(State, req)
       IN /\ req.quantity = Undefined => Rejected(r, 400)
          /\ (req.quantity # Undefined /\ req.id \notin 1..Len(inventory)) =>
               Rejected(r, 404)
  /\ Rejected(DeductBill(State, << >>, << >>), 400)
  /\ \A req \in CreateBillRequests, up \in BOOLEAN :
       (req.items \in {Undefined, Some(<< >>)} \/ req.paymentMethod = "undefined") =>
         Rejected(CreateBill(State, up, req), 400)
  /\ \A req \in RegisterBarcodeRequests :
       LET r == RegisterBarcode(State, req)
       IN r.resp.code \in {400, 404} => r.s = State
  /\ \A req \in UpdateInventoryRequests :
       LET r == UpdateInventory(State, req)
       IN /\ req.id \notin 1..Len(inventory) => Rejected(r, 404)
          /\ r.resp.code \in {400, 404} => r.s = State

\* An adjust-quantity aimed at an id that no document has was answered 404
\* while documents exist.
C12_Witness ==
  /\ last.op = "adjustQuantity"
  /\ last.code = 404
  /\ Len(inventory) > 0
  /\ Len(products) > 0

\* ----------------------------------------------------------------------- C13
\* A creation request that passes the handler's validation.
ValidBill(req) ==
  /\ req.items \notin {Undefined, Some(<< >>)}
  /\ req.paymentMethod # "undefined"

\* C13: creating a bill with valid input always answers 201 and persists a
\* bill whose billNumber no other stored bill has, leaving the stored bills as
\* they were, also when the clock reads what it read for an earlier bill.
C13_CreateBillSurvivesCollision ==
  \A req \in CreateBillRequests :
    (ValidBill(req) /\ \A i \in 1..Len(bills) : bills[i].createdAt <= req.now) =>
      LET r == CreateBill(State, TRUE, req)
          new == Len(bills) + 1
      IN /\ r.resp.code = 201
         /\ Len(r.s.bills) = new
         /\ \A i \in 1..Len(bills) :
              /\ r.s.bills[i] = bills[i]
              /\ Stored(bills[i]) => bills[i].billNumber # r.s.bills[new].billNumber

\* ----------------------------------------------------------------------- C14
\* A cache in which every key of the bill service holds an entry.
StaleBillCache ==
  [k \in {"bill:1", "bill:2", "bill-number:BILL-1", "bill-number:BILL-2",
          "bills:u1", "bills:u2", "bill-stats:daily"} |-> "stale"]

BillKeys(s, id) ==
  {"bill:" \o IdStr(id), "bill-number:" \o s.bills[id].billNumber,
   "bills:" \o s.bills[id].userId} \cup StatsKeys

Immutable(bill) ==
  <<bill.items, bill.subtotal, bill.tax, bill.discount, bill.total,
    bill.billNumber, bill.paymentMethod, bill.paymentStatus>>

\* C16: in every step of the bill routes, a bill that is stored after the step
\* and existed before it has the items, subtotal, tax, discount, total,
\* billNumber, paymentMethod and paymentStatus it had before the step,
\* whatever the body of an update carries.
C16_BillUpdateKeepsTotals ==
  [][\A i \in 1..Len(bills) :
       Stored(bills'[i]) => Immutable(bills'[i]) = Immutable(bills[i])]_vars

\* An update has changed the notes and the customer's name of a stored bill.
C16_Witness ==
  /\ last.op = "updateBill"
  /\ last.code = 200
  /\ \E i \in 1..Len(bills) :
       /\ Stored(bills[i])
       /\ bills[i].notes = Some("n1")
       /\ bills[i].customerName = Some("c1")

\* ----------------------------------------------------------------------- C17
\* C17: every stored bill has total = subtotal + tax - discount.
C17_TotalEquation ==
  \A i \in 1..Len(bills) :
    Stored(bills[i]) =>
      bills[i].total = bills[i].subtotal + bills[i].tax - bills[i].discount

\* ----------------------------------------------------------------------- C18
RECURSIVE SumOver(_, _)
\* The sum of f[x] over the x of S.
SumOver(f, S) ==
  IF S = {} THEN 0
  ELSE LET x == CHOOSE y \in S : TRUE IN f[x] + SumOver(f, S \ {x})

\* C18: the statistics of a set of bills have totalBills = the number of
\* bills, totalRevenue, totalTax and totalDiscount = the sums of total, tax
\* and discount, averageBill = totalRevenue / totalBills when there are bills
\* and 0 when there are none, and a breakdown with one entry per payment
\* method used, holding the number and the summed total of the bills paid that
\* way, so that the counts add up to totalBills and the totals to
\* totalRevenue; with no bills everything is 0 and the breakdown is empty.
C18_StatsAreSums ==
  last.op = "getSummary" =>
    LET st == last.stats
        n == Len(bills)
        Of(field) == [i \in 1..n |-> bills[i][field]]
        by == st.paymentMethodBreakdown
        Paid(m) == {i \in 1..n : bills[i].paymentMethod = m}
    IN /\ st.totalBills = n
       /\ st.totalRevenue = SumOver(Of("total"), 1..n)
       /\ st.totalTax = SumOver(Of("tax"), 1..n)
       /\ st.totalDiscount = SumOver(Of("discount"), 1..n)
       /\ st.averageBill.den > 0
       /\ st.averageBill.num * (IF n > 0 THEN n ELSE 1)
            = (IF n > 0 THEN st.totalRevenue ELSE 0) * st.averageBill.den
       /\ DOMAIN by = {bills[i].paymentMethod : i \in 1..n}
       /\ \A m \in DOMAIN by :
            /\ by[m].count = Cardinality(Paid(m))
            /\ by[m].total = SumOver(Of("total"), Paid(m))
       /\ SumOver([m \in DOMAIN by |-> by[m].count], DOMAIN by) = st.totalBills
       /\ SumOver([m \in DOMAIN by |-> by[m].total], DOMAIN by) = st.totalRevenue
       /\ n = 0 =>
            /\ st.totalRevenue = 0 /\ st.totalTax = 0 /\ st.totalDiscount = 0
            /\ st.averageBill.num = 0
            /\ DOMAIN by = {}

\* The statistics of three bills paid in two ways, whose average is not a
\* whole number, have been computed.
C18_Witness ==
  /\ last.op = "getSummary"
  /\ last.stats.totalBills = 3
  /\ DOMAIN last.stats.paymentMethodBreakdown = {"Cash", "Card"}
  /\ last.stats.totalRevenue % 3 # 0

\* ----------------------------------------------------------------------- C19
\* C19: with the cache answering, each caching helper of the bill service
\* followed at once by its reading helper on the same key returns what was
\* cached: a bill by id, a bill by number, the bill list of a user and the
\* statistics under a key.
C19_BillCacheRoundTrip ==
  LET list == [i \in 1..Len(bills) |-> BillJSON(bills, i)]
      stats == calculateBillStats(bills)
  IN /\ \A u \in Users :
          getCachedBillList(cacheBillList(cache, TRUE, u, Some(list)).cache, TRUE, u).value
            = Some(list)
     /\ getCachedBillStats(cacheBillStats(cache, TRUE, "daily", Some(stats)).cache,
                           TRUE, "daily").value = Some(stats)
     /\ \A i \in 1..Len(bills) :
          LET b == BillJSON(bills, i)
          IN /\ getCachedBill(cacheBill(cache, TRUE, IdStr(i), Some(b)).cache,
                              TRUE, IdStr(i)).value = Some(b)
             /\ getCachedBillByNumber(
                  cacheBillByNumber(cache, TRUE, b.billNumber, Some(b)).cache,
                  TRUE, b.billNumber).value = Some(b)

\* ----------------------------------------------------------------------- C20
\* The documents of the store that a query selects, with their products.
Selected(q) ==
  SelectSeq(InventoryListJSON(State),
            LAMBDA doc :
              /\ q.warehouse \in {Undefined, Some(""), Some("Default")}
              /\ q.status \in {Undefined, Some(""), Some(doc.status)}
              /\ q.search \in {Undefined, Some(""), Some(doc.barcode),
                               Some(doc.productId.barcode)})

\* C20: an inventory list request with a warehouse, a status or a search
\* answers 200 with the documents of the store that match, not marked as
\* cached, and leaves the cache exactly as it was, whatever the cache holds
\* and whether or not it answers.
C20_FilteredListBypassesCache ==
  \A q \in InventoryQueries, c \in {cache, EmptyCache, StaleCache}, up \in BOOLEAN :
    (\E f \in {q.warehouse, q.status, q.search} : f \notin {Undefined, Some("")}) =>
      LET r == GetInventory(WithCache(c), up, q)
      IN /\ r.s = WithCache(c)
         /\ r.resp = [code |-> 200, data |-> Selected(q), cached |-> FALSE]

\* A filtered list has been served from the store while the cache held an
\* entry and the store a document.
C20_Witness ==
  /\ last.op = "getInventory"
  /\ last.code = 200
  /\ DOMAIN cache # {}
  /\ Len(inventory) > 0

\* ----------------------------------------------------------------------- C21
\* C21: with the cache answering, for every product id and every value v,
\* cacheProduct(id, v) followed by invalidateProductCache(id), with or without
\* a barcode, followed by getCachedProduct(id) returns null, whatever the
\* cache held before; and when a barcode is passed, the entry of the product
\* under that barcode is gone too.
C21_InvalidatedProductIsAMiss ==
  \A id \in ProductKeyIds, v \in ProductDataInputs, b \in BarcodeInputs :
    LET cached == cacheProduct(cache, TRUE, id, v).cache
        after == invalidateProductCache(cached, TRUE, id, b).cache
    IN /\ (v # Undefined => getCachedProduct(cached, TRUE, id).value = v)
       /\ getCachedProduct(after, TRUE, id).value = Undefined
       /\ b # NoBarcode =>
            getCachedProductByBarcode(after, TRUE, b).value = Undefined

\* An invalidation with a barcode has just removed the entry of a product and
\* the entry under its barcode, and left the entry of another product.
C21_Witness ==
  /\ last.op = "invalidateProductCache"
  /\ last.removed = {"product:1", "barcode:b1"}
  /\ "product:2" \in DOMAIN cache

\* ----------------------------------------------------------------------- C22
\* What a request adds to the quantity it read.
Delta(r) == IF r.op = "adjust" THEN r.arg ELSE 0 - r.arg

\* A request that has saved its Inventory document.
Saved(r) == r.pc \in {"mirror", "done"}

\* C22: when an adjust-quantity or a deduct-bill saves its Inventory document,
\* the store then holds the quantity the request read plus its own delta,
\* whatever the store held just before the save: nothing compares the stored
\* quantity with the one that was read, so that two requests that both read
\* before either saves leave a quantity that lacks one of the two deltas.
C22_SaveOverwritesWhatItRead ==
  [][\A p \in Procs :
       (/\ requests[p].pc = "save"
        /\ requests'[p].pc = "mirror"
        /\ requests[p].op \in {"adjust", "deduct"}) =>
         inventory'[requests[p].id].quantity = requests[p].read + Delta(requests[p])]_vars

\* After a restock from 0 to 1, an adjust-quantity and a deduct-bill have both
\* read 1 and both saved: the store holds 1 plus the delta of one of them and
\* not 1 plus both deltas.
C22_Witness ==
  \E p, q, s \in Procs :
    /\ requests[s].pc = "done" /\ requests[s].op = "adjust" /\ requests[s].id = 1
    /\ requests[s].arg = 1 /\ requests[s].read = 0
    /\ requests[p].op = "adjust" /\ requests[p].id = 1 /\ Saved(requests[p])
    /\ requests[q].op = "deduct" /\ requests[q].id = 1 /\ Saved(requests[q])
    /\ requests[p].read = 1
    /\ requests[q].read = 1
    /\ inventory[1].quantity \in {1 + Delta(requests[p]), 1 + Delta(requests[q])}
    /\ inventory[1].quantity # 1 + Delta(requests[p]) + Delta(requests[q])

\* ----------------------------------------------------------------------- C23
\* C23: in every state that interleaved inventory requests reach, between two
\* store writes of one request included, every Inventory document's stored
\* status is the one derived from its stored quantity and minStock.
C23_StatusMatchesAtEveryWrite ==
  \A i \in 1..Len(inventory) :
    inventory[i].status = deriveStatus(inventory[i].quantity, inventory[i].minStock)

\* ----------------------------------------------------------------------- C25
\* The quantity that deduct-bill responses report as deducted.
Sold ==
  SumOver([p \in Procs |->
             IF requests[p].op = "deduct" /\ requests[p].outcome = "deducted"
               THEN requests[p].arg ELSE 0], Procs)

\* The stock the document was created with and what has been added to it: the
\* positive deltas of adjust-quantity and the quantities set by updates.
Stocked ==
  Seeded.s.inventory[1].quantity +
  SumOver([p \in Procs |->
             IF requests[p].op = "adjust" /\ requests[p].id = 1 /\ requests[p].arg > 0
               THEN requests[p].arg
             ELSE IF requests[p].op = "update" /\ requests[p].id = 1
               THEN requests[p].arg
             ELSE 0], Procs)

\* C25: whatever the interleaving of deduct-bill requests, the quantity
\* reported as deducted from an Inventory document is at most the stock the
\* document has held.
C25_NeverOversold == Sold <= Stocked

\* ----------------------------------------------------------------------- C24
\* C24: when a list request without filters misses the cache and answers with
\* the documents of the store, the same request repeated at once, the cache
\* answering both times, is served from the cache with the same list.
C24_UnfilteredListIsCachedForNextRead ==
  \A q \in InventoryQueries :
    LET first == GetInventory(State, TRUE, q)
        second == GetInventory(first.s, TRUE, q)
    IN (NoFilter(q) /\ Len(inventory) > 0 /\ first.resp.code = 200
          /\ ~first.resp.cached) =>
         second.resp = [code |-> 200, data |-> first.resp.data, cached |-> TRUE]

\* ----------------------------------------------------------------------- C26
\* The requests whose destroySession has completed.
Destroyers ==
  {p \in Procs : /\ requests[p].op \in {"logout", "profile"}
                 /\ requests[p].sid # NoSession
                 /\ requests[p].pc \in {"create", "pointer", "done"}}

\* C26: in every state after destroySession(s, u) has completed, whatever
\* requests carrying s were in the middleware at the time, getSession(s)
\* returns null (no createSession makes s again: a session id is made once).
C26_DestroyedSessionStaysGone ==
  \A p \in Destroyers : getSession(cache, TRUE, requests[p].sid) = Undefined

\* ----------------------------------------------------------------------- C27
\* The keys that hold session state of a user.
Owned(k, userId) ==
  k = PointerKey(userId) \/ \E now \in 1..MaxClock : k = SessionIdOf(userId, now)

\* No request is between two of its cache accesses.
Quiescent == \A p \in Procs : requests[p].pc \in {"idle", "done"}

\* The sessions of a user that createSession has stored and no destroySession
\* has been called on.
Live(u) ==
  ({SessionIdOf(u, now) : now \in 1..MaxClock} \cap DOMAIN cache)
    \ {requests[p].sid : p \in Destroyers}

\* C27: when no request is in flight and every destroySession so far was
\* called by a user on a session of their own, for every user with a live
\* session getUserSession returns a live session of that user.
C27_UserSessionFollowsLiveSessions ==
  (Quiescent /\ \A p \in Destroyers : Owned(requests[p].sid, requests[p].user)) =>
    \A u \in Requesters :
      Live(u) # {} =>
        LET session == getUserSession(cache, TRUE, u)
        IN /\ session # Undefined
           /\ Val(session).userId = u
           /\ SessionIdOf(u, Val(session).createdAt) \in Live(u)

\* ----------------------------------------------------------------------- C28
\* C28: when no request is in flight, a logout or a profile update of user A
\* with any session id or cache key in its body leaves every key of the cache
\* that is not session state of A in the cache.
C28_LogoutTouchesOwnSessionOnly ==
  Quiescent =>
    \A a \in Requesters, sid \in DOMAIN cache \cup {NoSession} :
      \A k \in DOMAIN cache :
        ~Owned(k, a) =>
          /\ k \in DOMAIN Logout(cache, TRUE, a, sid, MaxClock)
          /\ k \in DOMAIN UpdateProfile(cache, TRUE, a, sid, MaxClock)

\* ----------------------------------------------------------------------- C29
\* The active products of the store that have barcode b.
ActiveWithBarcode(b) ==
  {i \in 1..Len(products) : products[i].barcode = b /\ products[i].active}

\* C29: in every state, after whatever product updates, soft deletes and
\* inventory mutations, a lookup by barcode with the cache answering returns
\* 200 with the fields an active product with that barcode has in the store,
\* or 404 when the store has no such product.
C29_BarcodeLookupMatchesStore ==
  \A b \in Barcodes :
    LET r == GetProductByBarcode(State, TRUE, b)
    IN IF ActiveWithBarcode(b) = {} THEN r.resp.code = 404
       ELSE /\ r.resp.code = 200
            /\ \E i \in ActiveWithBarcode(b) : r.resp.data = ProductJSON(products, i)

\* ----------------------------------------------------------------------- C30
\* C30: a deduct-bill call all of whose items end in errors, whatever the
\* reason (no inventory, not enough stock, a store call rejecting), leaves
\* every Inventory document and every Product as it was.
C30_FailedItemsLeaveNoTrace ==
  \A req \in DeductBillRequests :
    LET r == DeductBill(State, req.items, req.faults)
    IN (Len(req.items) > 0 /\ Len(r.resp.errors) = Len(req.items)) =>
         /\ r.s.inventory = inventory
         /\ r.s.products = products

====
